---- MODULE Spec2Model ----
(***************************************************************************)
(* Model of the QGIS "Rotate Marker Symbol" map tool                       *)
(* (PointSymbolRotator and its component managers).                        *)
(*                                                                         *)
(* The tool is a single-threaded event handler object: every action of     *)
(* the model is one callback of the tool (a canvas mouse event, the        *)
(* layer-tree signal, tool deactivation), run to completion, together      *)
(* with every host call the callback makes.  Host objects (layers, edit    *)
(* sessions, message bar, canvas items) are modelled by what the tool      *)
(* can observe of them.                                                     *)
(*                                                                         *)
(* Optional values (Python None) are sequences of length 0 or 1, layer     *)
(* references are layer names with NoLayer for None.                       *)
(*                                                                         *)
(* Angles are Python floats.  An angle is a pair <<d, e>> that stands for  *)
(* d + e*delta degrees, where delta is a positive amount smaller than      *)
(* half the spacing of doubles near 360 (2^-45 degrees): e is only ever    *)
(* non-zero next to 0, where doubles are dense; a float sum of magnitude   *)
(* 128 or more cannot keep it and is rounded to the nearest double.        *)
(***************************************************************************)
EXTENDS Integers, Sequences, FiniteSets, TLC

VARIABLES tool, layers, host, ev, out, before_start

vars == <<tool, layers, host, ev, out, before_start>>

-----------------------------------------------------------------------------
(* Optional values *)

None == <<>>

Some(x) == <<x>>

IsNone(o) == o = <<>>

Val(o) == o[1]

NoLayer == "None"

-----------------------------------------------------------------------------
(* helpers.py: MouseButton *)

LEFT == 0

MIDDLE == 1

RIGHT == 2

\* event.button() values delivered to the tool: 0 .. MaxButton
MaxButton == 4

Buttons == 0..MaxButton

-----------------------------------------------------------------------------
(* Float angles *)

Deg(d) == <<d, 0>>

\* a < 0 for the float a
FLt0(a) == a[1] < 0 \/ (a[1] = 0 /\ a[2] < 0)

\* 0 <= a
FGe0(a) == ~FLt0(a)

\* a < 360
FLt360(a) == a[1] < 360 \/ (a[1] = 360 /\ a[2] < 0)

\* a <= 360
FLe360(a) == a[1] < 360 \/ (a[1] = 360 /\ a[2] <= 0)

\* Smallest magnitude (in degrees) from which a double cannot hold the
\* sub-delta part e any more.
AbsorbFrom == 128

\* The float sum a + 360.0, round-to-nearest.
FAdd360(a) ==
    LET d == a[1] + 360
    IN  IF d >= AbsorbFrom \/ d <= -AbsorbFrom THEN <<d, 0>> ELSE <<d, a[2]>>

-----------------------------------------------------------------------------
(* Map points and QgsPointXY.azimuth *)

\* A map point: grid coordinates x, y and u, an offset of u units in the
\* last place of the x coordinate.
Pt(x, y, u) == [x |-> x, y |-> y, u |-> u]

Sign(n) == IF n > 0 THEN 1 ELSE IF n < 0 THEN -1 ELSE 0

Abs(n) == IF n < 0 THEN -n ELSE n

\* src.azimuth(dst): atan2(dx, dy) in degrees, in [-180, 180], for the
\* directions that are multiples of 45 degrees.
point_azimuth(src, dst) ==
    LET dx == dst.x - src.x
        dy == dst.y - src.y
        du == dst.u - src.u
        sx == IF dx # 0 THEN Sign(dx) ELSE Sign(du)
    IN  CASE dx = 0 /\ dy > 0 -> <<0, Sign(du)>>
          [] dx = 0 /\ dy < 0 -> IF du < 0 THEN Deg(-180) ELSE Deg(180)
          [] dy = 0 -> Deg(90 * sx)
          [] dx # 0 /\ Abs(dx) = Abs(dy) ->
                 IF dy > 0 THEN Deg(45 * Sign(dx)) ELSE Deg(135 * Sign(dx))

\* The map points mouse-move events report.
MapPoints == {Pt(0, 2, -1), Pt(2, -2, 0)}

-----------------------------------------------------------------------------
(* The project's layers *)

LayerIds == {"A", "B", "G", "R", "X"}

\* What the validator looks at: the layer's class, its wkbType and the
\* class of its renderer.
LayerClasses == {"QgsVectorLayer", "QgsRasterLayer"}

WkbTypes == {"Point", "MultiPoint", "PointZ", "LineString", "NoGeometry"}

RendererClasses ==
    {"QgsSingleSymbolRenderer", "QgsCategorizedSymbolRenderer",
     "QgsRuleBasedRenderer", "QgsGraduatedSymbolRenderer",
     "QgsHeatmapRenderer", "QgsNullSymbolRenderer"}

LayerDescriptors ==
    [cls : LayerClasses, wkb : WkbTypes, renderer : RendererClasses]

Desc(l) ==
    CASE l = "A" -> Some([cls |-> "QgsVectorLayer", wkb |-> "Point",
                          renderer |-> "QgsSingleSymbolRenderer"])
      [] l = "B" -> Some([cls |-> "QgsVectorLayer", wkb |-> "Point",
                          renderer |-> "QgsCategorizedSymbolRenderer"])
      [] l = "G" -> Some([cls |-> "QgsVectorLayer", wkb |-> "Point",
                          renderer |-> "QgsGraduatedSymbolRenderer"])
      [] l = "R" -> Some([cls |-> "QgsVectorLayer", wkb |-> "Point",
                          renderer |-> "QgsRuleBasedRenderer"])
      [] l = "X" -> Some([cls |-> "QgsVectorLayer", wkb |-> "LineString",
                          renderer |-> "QgsSingleSymbolRenderer"])
      [] OTHER -> None

\* Features of a layer, as identify() returns them.
Feat(l, id, p) == [layer |-> l, id |-> id, point |-> p]

\* Feature ids are per layer: A's feature and R's have the same id.
FeaturesOf(l) ==
    CASE l = "A" -> {Feat("A", 1, Pt(0, 0, 0))}
      [] l = "B" -> {Feat("B", 2, Pt(2, 0, 0))}
      [] l = "G" -> {Feat("G", 1, Pt(2, 0, 0))}
      [] l = "R" -> {Feat("R", 1, Pt(0, 0, 0))}
      [] OTHER -> {}

\* Symbols of the layer's renderer: the single symbol, the symbols of all
\* categories, of all ranges, of all rules.
SymbolsOf(l) ==
    CASE l = "A" -> {"A.symbol"}
      [] l = "B" -> {"B.cat1", "B.cat2"}
      [] l = "G" -> {"G.range1", "G.range2"}
      [] l = "R" -> {"R.rule1", "R.rule2"}
      [] l = "X" -> {"X.symbol"}
      [] OTHER -> {}

\* The rule tree of a rule-based renderer: the root rule has no symbol,
\* R's second rule is a child of its first.
Rule(symbol, children) == [symbol |-> symbol, children |-> children]

rootRule(l) ==
    IF l = "R"
    THEN Rule(None, << Rule(Some("R.rule1"),
                            << Rule(Some("R.rule2"), <<>>) >>) >>)
    ELSE Rule(None, <<>>)

\* QgsRuleBasedRenderer.Rule.symbols(): the rule's symbol, if it has one,
\* and the symbols of its child rules.
RECURSIVE Rule_symbols(_)
Rule_symbols(rule) ==
    (IF IsNone(rule.symbol) THEN {} ELSE {Val(rule.symbol)})
        \cup UNION {Rule_symbols(rule.children[i]) : i \in DOMAIN rule.children}

\* renderer.symbolForFeature(feature, context): the symbol of the
\* category, range or rule the feature's attributes fall in, if any.  R's
\* feature matches none of R's rules, and a feature of another layer
\* matches nothing.
symbolForFeature(l, feature) ==
    CASE feature.layer = l /\ l = "B" -> Some("B.cat1")
      [] feature.layer = l /\ l = "G" -> Some("G.range2")
      [] OTHER -> None

\* Number of attribute fields of the layer's data source other than the
\* rotation field.
BaseFieldCount(l) ==
    CASE l = "A" -> 2
      [] l = "R" -> 3
      [] OTHER -> 1

\* The sets of layers a QGIS project holds when the tool is constructed.
Projects == {{"A", "B", "X"}, {"A", "R"}, {"G"}}

\* Layers whose provider cannot be edited.
ReadOnly(l) == l = "B"

ROTATION_FIELD == "__rotation__"

-----------------------------------------------------------------------------
(* Host: a vector layer's fields, attribute values and edit session *)

Cells(l) == {f.id : f \in FeaturesOf(l)} \X (0..BaseFieldCount(l))

\* A layer that has never been rotated: no rotation field, no data-defined
\* angle (ddAngle: the symbols whose angle is the expression reading the
\* rotation field; fixedAngle: the symbols whose angle is a constant
\* expression, with its value).  attr holds the committed attribute values the tool has written
\* (None: the value of the data source), pending the edit buffer's.
FreshLayer(l, editable) ==
    [editable |-> editable, hasField |-> FALSE, pendingField |-> FALSE,
     attr |-> [c \in Cells(l) |-> None],
     pending |-> [c \in Cells(l) |-> None],
     ddAngle |-> {}, fixedAngle |-> {}]

\* layer.fields().indexOf(name) for the rotation field
fieldsIndexOf(L, l) ==
    IF L.hasField \/ L.pendingField THEN BaseFieldCount(l) ELSE -1

FieldCount(L, l) ==
    BaseFieldCount(l) + (IF L.hasField \/ L.pendingField THEN 1 ELSE 0)

\* layer.startEditing()
startEditing(L, l) ==
    IF ReadOnly(l) \/ L.editable THEN L ELSE [L EXCEPT !.editable = TRUE]

\* layer.addAttribute(QgsField('__rotation__', Double)); layer.updateFields()
addAttribute(L, l) ==
    IF L.editable /\ ~L.hasField THEN [L EXCEPT !.pendingField = TRUE] ELSE L

\* layer.changeAttributeValue(fid, index, value)
changeAttributeValue(L, l, fid, index, value) ==
    IF L.editable /\ <<fid, index>> \in Cells(l) /\ index < FieldCount(L, l)
    THEN [L EXCEPT !.pending[<<fid, index>>] = Some(value)]
    ELSE L

\* layer.commitChanges()
commitChanges(L, l) ==
    IF ~L.editable THEN L
    ELSE [L EXCEPT !.editable = FALSE,
                   !.hasField = L.hasField \/ L.pendingField,
                   !.pendingField = FALSE,
                   !.attr = [c \in Cells(l) |->
                               IF IsNone(L.pending[c]) THEN L.attr[c]
                               ELSE L.pending[c]],
                   !.pending = [c \in Cells(l) |-> None]]

\* layer.rollBack()
rollBack(L, l) ==
    IF ~L.editable THEN L
    ELSE [L EXCEPT !.editable = FALSE, !.pendingField = FALSE,
                   !.pending = [c \in Cells(l) |-> None]]

\* symbol.setDataDefinedAngle(QgsProperty.fromExpression('"__rotation__"'))
setDataDefinedAngle(L, symbols) ==
    [L EXCEPT !.ddAngle = @ \cup symbols,
              !.fixedAngle = {p \in @ : p[1] \notin symbols}]

\* symbol.setDataDefinedAngle(prop), prop the constant expression f'{rotation}'
setDataDefinedAngleValue(L, symbols, rotation) ==
    [L EXCEPT !.ddAngle = @ \ symbols,
              !.fixedAngle = {p \in @ : p[1] \notin symbols}
                                 \cup {<<sym, rotation>> : sym \in symbols}]

-----------------------------------------------------------------------------
(* The world a callback runs in: the tool, the layers, and what the       *)
(* callback did (messages pushed, host calls made, the handlers it         *)
(* dispatched to, the exceptions it caught and passed over, an exception   *)
(* that left it, the value it returned).                                   *)

World(t, ls) ==
    [tool |-> t, layers |-> ls, msgs |-> <<>>, calls |-> <<>>,
     handlers |-> <<>>, swallowed |-> <<>>, raised |-> FALSE, ret |-> None]

Call(W, fn, l, args) ==
    [W EXCEPT !.calls = Append(@, [fn |-> fn, layer |-> l, args |-> args])]

OnLayer(W, l, L) == [W EXCEPT !.layers[l] = L]

-----------------------------------------------------------------------------
(* helpers.py: LayerEditingContext *)

\* __init__: self.was_editing = layer.isEditable()
LayerEditingContext_init(W, l) == W.layers[l].editable

LayerEditingContext_enter(W, l, was_editing) ==
    IF ~was_editing
    THEN OnLayer(Call(W, "startEditing", l, <<>>), l, startEditing(W.layers[l], l))
    ELSE W

ExitAlwaysCommits(W, l, was_editing, exc) ==
    OnLayer(Call(W, "commitChanges", l, <<>>), l, commitChanges(W.layers[l], l))

ExitCommitsOnError(W, l, was_editing, exc) ==
    IF ~was_editing
    THEN OnLayer(Call(W, "commitChanges", l, <<>>), l,
                 commitChanges(W.layers[l], l))
    ELSE W

LayerEditingContext_exit(W, l, was_editing, exc) ==
    IF ~was_editing
    THEN IF ~exc
         THEN OnLayer(Call(W, "commitChanges", l, <<>>), l,
                      commitChanges(W.layers[l], l))
         ELSE OnLayer(Call(W, "rollBack", l, <<>>), l, rollBack(W.layers[l], l))
    ELSE W

\* The value __exit__ returns: False, whatever it was called with.
LayerEditingContext_exit_returns(was_editing, exc) == FALSE

\* How the body of a with-block ends: it returns, or it raises before or
\* after the host call it makes took place.
BodyOutcomes == {"returns", "raises before the call", "raises after the call"}

\* The bodies of the with-blocks of field_manager.py: fn is addAttribute
\* (with updateFields) or changeAttributeValue with its arguments.
RunBody(W, l, fn, args, outcome) ==
    IF outcome = "raises before the call"
    THEN W
    ELSE OnLayer(Call(W, fn, l, args), l,
                 IF fn = "addAttribute"
                 THEN addAttribute(W.layers[l], l)
                 ELSE changeAttributeValue(W.layers[l], l,
                                           args[1], args[2], args[3]))

\* with LayerEditingContext(layer) as lyr: <body>
\* The exception of the body leaves the statement unless __exit__ returned
\* a true value.
with_LayerEditingContext(W, l, fn, args, outcome) ==
    LET was_editing == LayerEditingContext_init(W, l)
        W1 == LayerEditingContext_enter(W, l, was_editing)
        W2 == RunBody(W1, l, fn, args, outcome)
        exc == outcome # "returns"
        W3 == LayerEditingContext_exit(W2, l, was_editing, exc)
    IN  [W3 EXCEPT !.raised =
            exc /\ ~LayerEditingContext_exit_returns(was_editing, exc)]

-----------------------------------------------------------------------------
(* helpers.py: MessageHelper; validators.py: LayerValidator *)

Msg(level, text) == [title |-> "Error", level |-> level, text |-> text]

show_warning(text) == Msg("Warning", text)

show_critical(text) == Msg("Critical", text)

\* pushMessage("Info", message, level=Qgis.Info)
show_info(text) == [title |-> "Info", level |-> "Info", text |-> text]

Result(ret, msgs) == [ret |-> ret, msgs |-> msgs]

ValidateLayerNoPointCheck(layer) ==
    IF IsNone(layer)
    THEN Result(FALSE, <<show_warning("no active layer")>>)
    ELSE LET is_valid == Val(layer).cls = "QgsVectorLayer"
         IN  Result(is_valid,
                    IF is_valid THEN <<>>
                    ELSE <<show_critical("must have Point geometry")>>)

\* validate_layer(layer): layer is None or Some(descriptor)
validate_layer(layer) ==
    IF IsNone(layer)
    THEN Result(FALSE, <<show_warning("no active layer")>>)
    ELSE LET is_valid == /\ Val(layer).cls = "QgsVectorLayer"
                         /\ Val(layer).wkb = "Point"
         IN  Result(is_valid,
                    IF is_valid THEN <<>>
                    ELSE <<show_critical("must have Point geometry")>>)

ValidateRendererSilent(renderer) ==
    Result(renderer \in {"QgsSingleSymbolRenderer", "QgsCategorizedSymbolRenderer",
                         "QgsRuleBasedRenderer", "QgsGraduatedSymbolRenderer"},
           <<>>)

\* validate_renderer(renderer): renderer is the class of the renderer
validate_renderer(renderer) ==
    LET is_valid == renderer \in
            {"QgsSingleSymbolRenderer", "QgsCategorizedSymbolRenderer",
             "QgsRuleBasedRenderer", "QgsGraduatedSymbolRenderer"}
    IN  Result(is_valid,
               IF is_valid THEN <<>>
               ELSE <<show_critical("no compatible Marker renderer")>>)

\* validate(layer): the result, the messages pushed, and whether
\* layer.renderer() was examined
validate(layer) ==
    IF IsNone(layer)
    THEN [ret |-> FALSE, msgs |-> <<>>, examined |-> FALSE]
    ELSE LET vl == validate_layer(layer)
         IN  IF ~vl.ret
             THEN [ret |-> FALSE, msgs |-> vl.msgs, examined |-> FALSE]
             ELSE LET vr == validate_renderer(Val(layer).renderer)
                  IN  [ret |-> vr.ret, msgs |-> vl.msgs \o vr.msgs,
                       examined |-> TRUE]

\* self.is_valid = self.validator.validate(self.layer) if self.layer else False
Revalidate(W, l) ==
    LET v == IF l # NoLayer THEN validate(Desc(l))
             ELSE [ret |-> FALSE, msgs |-> <<>>, examined |-> FALSE]
    IN  [W EXCEPT !.tool.is_valid = v.ret, !.msgs = @ \o v.msgs]

-----------------------------------------------------------------------------
(* rotation_state.py: RotationState *)

\* The dataclass defaults, and what reset() assigns.
IdleState ==
    [feature |-> None, feature_id |-> None, src_point |-> None,
     drawing_guide |-> FALSE, azimuth |-> None,
     rotation_field_index |-> -1, is_active |-> FALSE]

reset(st) == IdleState

start_rotation(st, feature, field_index) ==
    [st EXCEPT !.feature = Some(feature),
               !.feature_id = Some(feature.id),
               !.src_point = Some(feature.point),
               !.rotation_field_index = field_index,
               !.drawing_guide = TRUE,
               !.is_active = TRUE]

finish_rotation(st) == reset(st)

SetAzimuthRaw(st, raw_azimuth) == [st EXCEPT !.azimuth = Some(raw_azimuth)]

set_azimuth(st, raw_azimuth) ==
    IF FLt0(raw_azimuth)
    THEN [st EXCEPT !.azimuth = Some(FAdd360(raw_azimuth))]
    ELSE [st EXCEPT !.azimuth = Some(raw_azimuth)]

-----------------------------------------------------------------------------
(* field_manager.py: RotationFieldManager (self.layer is the layer l) *)

get_field_index(W, l) == fieldsIndexOf(W.layers[l], l)

field_exists(W, l) == get_field_index(W, l) >= 0

\* with LayerEditingContext(self.layer) as lyr:
\*     lyr.addAttribute(...); lyr.updateFields()
_create_rotation_field(W, l) ==
    LET was_editing == LayerEditingContext_init(W, l)
        W1 == LayerEditingContext_enter(W, l, was_editing)
        W2 == OnLayer(Call(W1, "addAttribute", l, <<ROTATION_FIELD>>), l,
                      addAttribute(W1.layers[l], l))
    IN  LayerEditingContext_exit(W2, l, was_editing, FALSE)

\* Returns the world after the call and the returned index.
ensure_rotation_field_exists(W, l) ==
    LET field_index == get_field_index(W, l)
    IN  IF field_index < 0
        THEN LET W1 == _create_rotation_field(W, l)
             IN  [w |-> W1, ret |-> get_field_index(W1, l)]
        ELSE [w |-> W, ret |-> field_index]

\* with LayerEditingContext(self.layer) as lyr:
\*     lyr.changeAttributeValue(feature_id, field_index, azimuth)
update_rotation(W, l, feature_id, field_index, azimuth) ==
    LET was_editing == LayerEditingContext_init(W, l)
        W1 == LayerEditingContext_enter(W, l, was_editing)
        W2 == OnLayer(Call(W1, "changeAttributeValue", l,
                           <<feature_id, field_index, azimuth>>), l,
                      changeAttributeValue(W1.layers[l], l, feature_id,
                                           field_index, azimuth))
    IN  LayerEditingContext_exit(W2, l, was_editing, FALSE)

set_data_defined_rotation(W, l, symbols) ==
    OnLayer(W, l, setDataDefinedAngle(W.layers[l], symbols))

set_dynamic_rotation(W, l, symbols, rotation) ==
    OnLayer(W, l, setDataDefinedAngleValue(W.layers[l], symbols, rotation))

-----------------------------------------------------------------------------
(* visual_feedback.py: VisualFeedbackManager; symbol_preview.py *)

create_point_rubber_band(t, point) ==
    [t EXCEPT !.rubber_bands = Append(@, [kind |-> "point", geom |-> Some(point)])]

\* guide_rubber_band refers to the band the last create_guide_line
\* created and appended: the last line band of the list, bands being
\* appended one by one and removed only all at once, with the reference.
create_guide_line(t) ==
    [t EXCEPT !.rubber_bands = Append(@, [kind |-> "line", geom |-> None]),
              !.guide_rubber_band = TRUE]

\* The place of self.guide_rubber_band in self.rubber_bands.
GuideIndex(t) ==
    CHOOSE i \in DOMAIN t.rubber_bands :
        /\ t.rubber_bands[i].kind = "line"
        /\ \A j \in DOMAIN t.rubber_bands :
              t.rubber_bands[j].kind = "line" => j <= i

update_guide_line(t, start_point, end_point) ==
    IF t.guide_rubber_band /\ ~IsNone(start_point)
    THEN [t EXCEPT !.rubber_bands[GuideIndex(t)].geom =
                       Some(<<Val(start_point), end_point>>)]
    ELSE t

\* The object QgsSnapIndicator(self.canvas) constructs.
QgsSnapIndicator == "a QgsSnapIndicator object"

\* self.snap_indicator = QgsSnapIndicator(self.canvas): a new indicator,
\* showing no match; t is the manager after the call, ret the indicator
\* it returns.
initialize_snap_indicator(t) ==
    [t |-> [t EXCEPT !.snap_indicator = TRUE, !.snap_match = None],
     ret |-> Some(QgsSnapIndicator)]

update_snap_indicator(t, snap_match) ==
    IF t.snap_indicator THEN [t EXCEPT !.snap_match = Some(snap_match)] ELSE t

remove_all_rubber_bands(t) ==
    [t EXCEPT !.rubber_bands = <<>>, !.guide_rubber_band = FALSE]

\* The default of create_symbol_preview's initial_rotation: 0.0
DefaultInitialRotation == Deg(0)

\* SymbolPreviewManager.create_preview(point, symbol, initial_rotation)
create_symbol_preview(t, point, symbol, initial_rotation) ==
    [t EXCEPT !.preview_item =
        Some([symbol |-> symbol, point |-> point,
              rotation |-> initial_rotation])]

\* SymbolPreviewManager.update_rotation(angle)
update_symbol_rotation(t, angle) ==
    IF ~IsNone(t.preview_item)
    THEN [t EXCEPT !.preview_item = Some([Val(@) EXCEPT !.rotation = angle])]
    ELSE t

remove_symbol_preview(t) == [t EXCEPT !.preview_item = None]

\* VisualFeedbackManager.clear()
clear(t) == remove_symbol_preview(remove_all_rubber_bands(t))

\* SymbolPreviewManager.get_feature_symbol(layer, feature): a clone of the
\* symbol the layer's renderer draws the feature with.
get_feature_symbol(l, feature) ==
    IF l = NoLayer
    THEN None
    ELSE LET renderer == Val(Desc(l)).renderer
         IN  IF renderer = "QgsSingleSymbolRenderer"
             THEN Some(CHOOSE symbol \in SymbolsOf(l) : TRUE)
             ELSE IF renderer \in {"QgsCategorizedSymbolRenderer",
                                   "QgsGraduatedSymbolRenderer",
                                   "QgsRuleBasedRenderer"}
             THEN symbolForFeature(l, feature)
             ELSE None

-----------------------------------------------------------------------------
(* rotate_marker_symbol_worker.py: PointSymbolRotator *)

\* __init__(canvas, iface): the tool and the messages its validation pushed
NewTool(activeLayer) ==
    LET t0 == [layer |-> activeLayer, is_valid |-> FALSE,
               field_manager |-> NoLayer, state |-> IdleState,
               rubber_bands |-> <<>>, guide_rubber_band |-> FALSE,
               preview_item |-> None,
               snap_indicator |-> FALSE, snap_match |-> None,
               connected |-> TRUE]
        t == initialize_snap_indicator(t0).t
    IN  Revalidate(World(t, <<>>), activeLayer)

canvasPressEvent(W, activeLayer) ==
    LET W1 == Revalidate([W EXCEPT !.tool.layer = activeLayer], activeLayer)
    IN  IF ~W1.tool.is_valid
        THEN W1
        ELSE IF W1.tool.field_manager = NoLayer
                \/ W1.tool.field_manager # W1.tool.layer
             THEN [W1 EXCEPT !.tool.field_manager = W1.tool.layer]
             ELSE W1

\* renderer.symbols(QgsRenderContext()) for a categorized or graduated
\* renderer, rootRule().symbols() for a rule-based one, [renderer.symbol()]
\* for a renderer that has a symbol() method, [] for any other.
_get_layer_symbols(W) ==
    IF W.tool.layer = NoLayer
    THEN {}
    ELSE LET renderer == Val(Desc(W.tool.layer)).renderer
         IN  IF renderer \in {"QgsCategorizedSymbolRenderer",
                              "QgsGraduatedSymbolRenderer"}
             THEN SymbolsOf(W.tool.layer)
             ELSE IF renderer = "QgsRuleBasedRenderer"
             THEN Rule_symbols(rootRule(W.tool.layer))
             ELSE IF renderer = "QgsSingleSymbolRenderer"
             THEN SymbolsOf(W.tool.layer)
             ELSE {}

_cleanup_after_rotation(W) ==
    [W EXCEPT !.tool = [clear(W.tool) EXCEPT !.state = reset(W.tool.state)]]

_start_rotation(W, identify_results) ==
    IF IsNone(identify_results)
    THEN W
    ELSE IF W.tool.field_manager = NoLayer
    THEN [W EXCEPT !.raised = TRUE]
    ELSE LET feature == Val(identify_results)
             e == ensure_rotation_field_exists(W, W.tool.field_manager)
             layer_symbols == _get_layer_symbols(e.w)
             W2 == IF W.tool.layer = NoLayer THEN e.w
                   ELSE set_data_defined_rotation(e.w, W.tool.layer, layer_symbols)
             st == start_rotation(W2.tool.state, feature, e.ret)
             t1 == [W2.tool EXCEPT !.state = st]
             t2 == create_point_rubber_band(t1, Val(st.src_point))
             t3 == create_guide_line(t2)
             symbol == get_feature_symbol(W.tool.layer, feature)
             t4 == IF ~IsNone(symbol)
                   THEN create_symbol_preview(t3, Val(st.src_point), Val(symbol),
                                              DefaultInitialRotation)
                   ELSE t3
         IN  [W2 EXCEPT !.tool = t4]

CommitKeepsState(W) ==
    IF ~W.tool.state.is_active \/ IsNone(W.tool.state.azimuth)
    THEN W
    ELSE update_rotation(W, W.tool.field_manager,
                         Val(W.tool.state.feature_id),
                         W.tool.state.rotation_field_index,
                         Val(W.tool.state.azimuth))

_commit_rotation(W) ==
    IF ~W.tool.state.is_active \/ IsNone(W.tool.state.azimuth)
    THEN W
    ELSE IF W.tool.field_manager = NoLayer
    THEN [W EXCEPT !.raised = TRUE]
    ELSE LET W1 == update_rotation(W, W.tool.field_manager,
                                   Val(W.tool.state.feature_id),
                                   W.tool.state.rotation_field_index,
                                   Val(W.tool.state.azimuth))
         IN  Call(_cleanup_after_rotation(W1), "refresh", NoLayer, <<>>)

CancelCommits(W) == _commit_rotation(W)

_cancel_rotation(W) == _cleanup_after_rotation(W)

Handler(W, h) == [W EXCEPT !.handlers = Append(@, h)]

ReleaseRightOnlyWhenDrawing(W, button, identify_results) ==
    IF ~W.tool.is_valid THEN W
    ELSE IF button \in {LEFT, MIDDLE} /\ ~W.tool.state.drawing_guide
    THEN _start_rotation(Handler(W, "start"), identify_results)
    ELSE IF button \in {LEFT, MIDDLE} /\ W.tool.state.drawing_guide
    THEN _commit_rotation(Handler(W, "commit"))
    ELSE IF button = RIGHT /\ W.tool.state.drawing_guide
    THEN _cancel_rotation(Handler(W, "cancel"))
    ELSE W

canvasReleaseEvent(W, button, identify_results) ==
    IF ~W.tool.is_valid THEN W
    ELSE IF button \in {LEFT, MIDDLE} /\ ~W.tool.state.drawing_guide
    THEN _start_rotation(Handler(W, "start"), identify_results)
    ELSE IF button \in {LEFT, MIDDLE} /\ W.tool.state.drawing_guide
    THEN _commit_rotation(Handler(W, "commit"))
    ELSE IF button = RIGHT
    THEN _cancel_rotation(Handler(W, "cancel"))
    ELSE W

\* canvasMoveEvent past its validity gate (lines 150-165)
MoveOnValidLayer(W, snap_match, end_point) ==
    LET t1 == update_snap_indicator(W.tool, snap_match)
    IN  IF t1.state.drawing_guide /\ ~IsNone(t1.state.src_point)
        THEN LET t2 == update_guide_line(t1, t1.state.src_point, end_point)
                 raw_azimuth == point_azimuth(Val(t1.state.src_point), end_point)
                 t3 == [t2 EXCEPT !.state = set_azimuth(t2.state, raw_azimuth)]
             IN  [W EXCEPT !.tool = update_symbol_rotation(t3, Val(t3.state.azimuth))]
        ELSE [W EXCEPT !.tool = t1]

MoveNoGate(W, snap_match, end_point) == MoveOnValidLayer(W, snap_match, end_point)

MoveKeepsFirstAzimuth(W, snap_match, end_point) ==
    IF ~W.tool.is_valid THEN W
    ELSE IF IsNone(W.tool.state.azimuth)
         THEN MoveOnValidLayer(W, snap_match, end_point)
         ELSE [W EXCEPT !.tool = update_snap_indicator(W.tool, snap_match)]

canvasMoveEvent(W, snap_match, end_point) ==
    IF ~W.tool.is_valid THEN W
    ELSE MoveOnValidLayer(W, snap_match, end_point)

on_layer_changed(W, layer) ==
    IF layer = NoLayer
    THEN [W EXCEPT !.tool.layer = NoLayer, !.tool.is_valid = FALSE]
    ELSE LET W1 == Revalidate([W EXCEPT !.tool.layer = layer], layer)
             W2 == IF W1.tool.field_manager = NoLayer
                      \/ W1.tool.field_manager # W1.tool.layer
                   THEN [W1 EXCEPT !.tool.field_manager = W1.tool.layer]
                   ELSE W1
         IN  IF W2.tool.state.is_active THEN _cleanup_after_rotation(W2) ELSE W2

\* currentLayerChanged.disconnect(self.on_layer_changed): the slot is
\* disconnected; when it was not connected the call raises TypeError.
disconnect(connected) ==
    [connected |-> FALSE,
     exc |-> IF connected THEN None ELSE Some("TypeError")]

DeactivateWithoutTry(W) ==
    LET d == disconnect(W.tool.connected)
        W1 == [W EXCEPT !.tool.connected = d.connected]
    IN  IF ~IsNone(d.exc)
        THEN [W1 EXCEPT !.raised = TRUE]
        ELSE [W1 EXCEPT !.tool = [clear(W1.tool) EXCEPT
                                     !.state = reset(W1.tool.state)]]

\* try: disconnect  except (TypeError, RuntimeError): pass
\* then visual_manager.clear() and state.reset()
on_deactivate(W) ==
    LET d == disconnect(W.tool.connected)
        W1 == [W EXCEPT !.tool.connected = d.connected]
        W2 == IF IsNone(d.exc) THEN W1
              ELSE IF Val(d.exc) \in {"TypeError", "RuntimeError"}
              THEN [W1 EXCEPT !.swallowed = Append(@, Val(d.exc))]
              ELSE [W1 EXCEPT !.raised = TRUE]
    IN  IF W2.raised
        THEN W2
        ELSE [W2 EXCEPT !.tool = [clear(W2.tool) EXCEPT
                                     !.state = reset(W2.tool.state)]]

\* The instance attributes __init__ assigns (lines 54-77).
ToolAttributes ==
    {"canvas", "iface", "project", "layer", "message_helper", "validator",
     "visual_manager", "snapping_manager", "state", "field_manager",
     "is_valid", "snap_indicator", "snap_utils"}

\* preview_layer.py: PreviewLayerManager.UUID
UUID == "rotate_points_tool-c848-4cd7-924d-1e9522d3aef4"

\* try: self.preview_manager.cleanup(); self.visual_manager.clear()
\* except (AttributeError, RuntimeError): pass
\* Reading an attribute the instance does not have raises AttributeError.
__del__(W) ==
    IF "preview_manager" \notin ToolAttributes
    THEN [W EXCEPT !.swallowed = Append(@, "AttributeError")]
    ELSE [W EXCEPT !.tool = clear(W.tool)]

\* remove_rubber_bands(): self.visual_manager.clear()
remove_rubber_bands(W) == [W EXCEPT !.tool = clear(W.tool)]

\* return self.preview_manager.UUID
get_uuid(W) ==
    IF "preview_manager" \notin ToolAttributes
    THEN [W EXCEPT !.raised = TRUE]
    ELSE [W EXCEPT !.ret = Some(UUID)]

-----------------------------------------------------------------------------
(* The host's event loop *)

\* What a callback leaves behind besides the tool and the layers.
Outcome(W) ==
    [msgs |-> W.msgs, calls |-> W.calls, handlers |-> W.handlers,
     swallowed |-> W.swallowed, raised |-> W.raised, ret |-> W.ret]

\* The event delivered: the callback, the button and map point it carries,
\* and whether it found a rotation in progress.
Event(op, button, point) ==
    [op |-> op, button |-> button, point |-> point,
     rotating |-> tool.state.is_active]

\* The tool and the layers after the callback whose result is W.
\* before_start keeps the layers as they were when the rotation in
\* progress, or the one this callback ended, was started; with no such
\* rotation it is the layers as they are.
Deliver(W, e) ==
    /\ tool' = W.tool
    /\ layers' = W.layers
    /\ out' = Outcome(W)
    /\ ev' = e
    /\ before_start' = IF W.tool.state.is_active /\ ~tool.state.is_active
                       THEN layers
                       ELSE IF tool.state.is_active THEN before_start
                       ELSE W.layers

\* The tool is constructed in one of the projects, with any of its layers,
\* or none, active; layer A may be in edit mode.
Init ==
    \E project \in Projects, editable \in BOOLEAN :
      \E a \in project \cup {NoLayer} :
        LET W == NewTool(a)
        IN  /\ tool = W.tool
            /\ layers = [l \in LayerIds |->
                            FreshLayer(l, IF l = "A" THEN editable ELSE FALSE)]
            /\ host = [project |-> project, activeLayer |-> a,
                       toolActive |-> TRUE, destroyed |-> FALSE]
            /\ ev = [op |-> "init", button |-> -1, point |-> None,
                     rotating |-> FALSE]
            /\ out = Outcome(W)
            /\ before_start = layers

\* A mouse button goes down on the canvas while the tool is the canvas's
\* map tool.
CanvasPress ==
    /\ host.toolActive
    /\ Deliver(canvasPressEvent(World(tool, layers), host.activeLayer),
               Event("press", -1, None))
    /\ UNCHANGED host

\* identify(x, y, ActiveLayer, VectorLayer): the feature of the active
\* layer under the cursor, if any.
IdentifyResults == {None} \cup {Some(f) : f \in FeaturesOf(host.activeLayer)}

\* A button comes up on the canvas while the tool is the canvas's map
\* tool.  The tool may not have seen that button go down (it was activated
\* in between), and anything may have happened since it did: the host is
\* back in its event loop after every callback.
CanvasRelease ==
    /\ host.toolActive
    /\ \E button \in Buttons, identify_results \in IdentifyResults :
           Deliver(canvasReleaseEvent(World(tool, layers), button, identify_results),
                   Event("release", button, None))
    /\ UNCHANGED host

\* The mouse moves over the canvas.
CanvasMove ==
    /\ host.toolActive
    /\ \E snap_match \in BOOLEAN, end_point \in MapPoints :
           Deliver(canvasMoveEvent(World(tool, layers), snap_match, end_point),
                   Event("move", -1, Some(end_point)))
    /\ UNCHANGED host

\* The user selects another layer of the project, or none, in the layer
\* tree: currentLayerChanged is emitted, and reaches the tool while
\* connected.
CurrentLayerChanged ==
    /\ ~host.destroyed
    /\ \E l \in (host.project \cup {NoLayer}) \ {host.activeLayer} :
          /\ host' = [host EXCEPT !.activeLayer = l]
          /\ IF tool.connected
             THEN Deliver(on_layer_changed(World(tool, layers), l),
                          Event("layer_changed", -1, None))
             ELSE Deliver(World(tool, layers), Event("layer_changed", -1, None))

\* Another map tool is chosen: deactivated is emitted.
Deactivate ==
    /\ host.toolActive
    /\ Deliver(on_deactivate(World(tool, layers)), Event("deactivate", -1, None))
    /\ host' = [host EXCEPT !.toolActive = FALSE]

\* The tool is chosen again; QgsMapTool.activate() is not overridden.
Activate ==
    /\ ~host.toolActive /\ ~host.destroyed
    /\ Deliver(World(tool, layers), Event("activate", -1, None))
    /\ host' = [host EXCEPT !.toolActive = TRUE]

\* The plugin asks the tool for the preview layer's UUID.
GetUuid ==
    /\ ~host.destroyed
    /\ Deliver(get_uuid(World(tool, layers)), Event("get_uuid", -1, None))
    /\ UNCHANGED host

\* Other code calls the tool's public remove_rubber_bands().
RemoveRubberBands ==
    /\ ~host.destroyed
    /\ Deliver(remove_rubber_bands(World(tool, layers)),
               Event("remove_rubber_bands", -1, None))
    /\ UNCHANGED host

\* The last reference to the tool is dropped (the plugin is unloaded or
\* QGIS is closed, with the tool active or not): __del__ runs, and the
\* tool receives no event any more.
Del ==
    /\ ~host.destroyed
    /\ Deliver(__del__(World(tool, layers)), Event("del", -1, None))
    /\ host' = [host EXCEPT !.toolActive = FALSE, !.destroyed = TRUE]

Next ==
    \/ CanvasPress
    \/ CanvasRelease
    \/ CanvasMove
    \/ CurrentLayerChanged
    \/ Deactivate
    \/ Activate
    \/ GetUuid
    \/ RemoveRubberBands
    \/ Del

Spec == Init /\ [][Next]_vars

-----------------------------------------------------------------------------
(* The validator on its own: validate, validate_layer and                  *)
(* validate_renderer applied to every kind of layer.  out holds the call's *)
(* result and the messages it pushed.                                      *)

LayerArguments == {None} \cup {Some(d) : d \in LayerDescriptors}

ValidateCall ==
    /\ \E layer \in LayerArguments :
          /\ ev' = [op |-> "validate", layer |-> layer]
          /\ out' = validate(layer)
    /\ UNCHANGED <<tool, layers, host, before_start>>

ValidateLayerCall ==
    /\ \E layer \in LayerArguments :
          /\ ev' = [op |-> "validate_layer", layer |-> layer]
          /\ out' = validate_layer(layer)
    /\ UNCHANGED <<tool, layers, host, before_start>>

ValidateRendererCall ==
    /\ \E renderer \in RendererClasses :
          /\ ev' = [op |-> "validate_renderer", renderer |-> renderer]
          /\ out' = validate_renderer(renderer)
    /\ UNCHANGED <<tool, layers, host, before_start>>

NextValidate == ValidateCall \/ ValidateLayerCall \/ ValidateRendererCall

SpecValidate == Init /\ [][NextValidate]_vars

-----------------------------------------------------------------------------
(* LayerEditingContext on its own: with-blocks on every layer, in and out  *)
(* of edit mode, whose body makes one of the host calls of                 *)
(* field_manager.py and returns or raises.                                 *)

\* The angles written by the bodies.
BodyAngles == {Deg(0), Deg(90)}

BodyCalls(l) ==
    {<<"addAttribute", <<ROTATION_FIELD>> >>}
        \cup {<<"changeAttributeValue", <<f.id, fieldsIndexOf(layers[l], l), a>> >> :
                 f \in FeaturesOf(l), a \in BodyAngles}

WithBlock ==
    /\ \E l \in LayerIds, outcome \in BodyOutcomes :
          \E c \in BodyCalls(l) :
             LET W == with_LayerEditingContext(World(tool, layers), l,
                                               c[1], c[2], outcome)
             IN  /\ layers' = W.layers
                 /\ out' = Outcome(W)
                 /\ ev' = [op |-> "with", layer |-> l, fn |-> c[1],
                           outcome |-> outcome,
                           was_editing |-> layers[l].editable]
    /\ UNCHANGED <<tool, host, before_start>>

NextContext == WithBlock

SpecContext == Init /\ [][NextContext]_vars

-----------------------------------------------------------------------------
(* The component classes on their own: the public methods of               *)
(* VisualFeedbackManager, RotationState, RotationFieldManager and          *)
(* MessageHelper called directly, in any order, on the components of a     *)
(* newly constructed tool, one specification per class.                    *)

\* Rubber bands created at most.
MaxBands == 3

ComponentCall(op, t, ls, msgs) ==
    /\ tool' = t
    /\ layers' = ls
    /\ ev' = [op |-> op, button |-> -1, point |-> None,
              rotating |-> tool.state.is_active]
    /\ out' = [Outcome(World(t, ls)) EXCEPT !.msgs = msgs]
    /\ UNCHANGED <<host, before_start>>

VfmCreatePointRubberBand ==
    /\ Len(tool.rubber_bands) < MaxBands
    /\ \E point \in {Pt(0, 0, 0), Pt(2, -2, 0)} :
          ComponentCall("create_point_rubber_band",
                        create_point_rubber_band(tool, point), layers, <<>>)

VfmCreateGuideLine ==
    /\ Len(tool.rubber_bands) < MaxBands
    /\ ComponentCall("create_guide_line", create_guide_line(tool), layers, <<>>)

VfmUpdateGuideLine ==
    \E start_point \in {None, Some(Pt(0, 0, 0))}, end_point \in {Pt(0, 2, -1)} :
        ComponentCall("update_guide_line",
                      update_guide_line(tool, start_point, end_point),
                      layers, <<>>)

VfmRemoveAllRubberBands ==
    ComponentCall("remove_all_rubber_bands", remove_all_rubber_bands(tool),
                  layers, <<>>)

VfmInitializeSnapIndicator ==
    LET r == initialize_snap_indicator(tool)
    IN  /\ tool' = r.t
        /\ ev' = [op |-> "initialize_snap_indicator", button |-> -1,
                  point |-> None, rotating |-> tool.state.is_active]
        /\ out' = Outcome([World(r.t, layers) EXCEPT !.ret = r.ret])
        /\ UNCHANGED <<layers, host, before_start>>

VfmUpdateSnapIndicator ==
    \E snap_match \in BOOLEAN :
        ComponentCall("update_snap_indicator",
                      update_snap_indicator(tool, snap_match), layers, <<>>)

VfmCreateSymbolPreview ==
    \E initial_rotation \in {DefaultInitialRotation, Deg(45)} :
        ComponentCall("create_symbol_preview",
                      create_symbol_preview(tool, Pt(0, 0, 0), "A.symbol",
                                            initial_rotation),
                      layers, <<>>)

VfmUpdateSymbolRotation ==
    ComponentCall("update_symbol_rotation",
                  update_symbol_rotation(tool, Deg(90)), layers, <<>>)

VfmRemoveSymbolPreview ==
    ComponentCall("remove_symbol_preview", remove_symbol_preview(tool),
                  layers, <<>>)

VfmClear ==
    ComponentCall("clear", clear(tool), layers, <<>>)

StateReset ==
    ComponentCall("reset", [tool EXCEPT !.state = reset(tool.state)],
                  layers, <<>>)

StateStartRotation ==
    \E feature \in FeaturesOf("A") \cup FeaturesOf("B"), field_index \in {-1, 2} :
        ComponentCall("start_rotation",
                      [tool EXCEPT !.state =
                          start_rotation(tool.state, feature, field_index)],
                      layers, <<>>)

StateSetAzimuth ==
    \E raw_azimuth \in {Deg(-90), <<0, -1>>, Deg(45)} :
        ComponentCall("set_azimuth",
                      [tool EXCEPT !.state = set_azimuth(tool.state, raw_azimuth)],
                      layers, <<>>)

StateFinishRotation ==
    ComponentCall("finish_rotation",
                  [tool EXCEPT !.state = finish_rotation(tool.state)],
                  layers, <<>>)

FmSetRotationProperty ==
    \E l \in {"A", "B"} :
        LET W == World(tool, layers)
        IN  \/ ComponentCall("set_data_defined_rotation", tool,
                             set_data_defined_rotation(W, l, SymbolsOf(l)).layers,
                             <<>>)
            \/ ComponentCall("set_dynamic_rotation", tool,
                             set_dynamic_rotation(W, l, SymbolsOf(l), Deg(90)).layers,
                             <<>>)

\* A method of a RotationFieldManager on layer l, with the host calls it
\* makes and the value it returns.
FieldManagerCall(op, W, ret) ==
    /\ tool' = W.tool
    /\ layers' = W.layers
    /\ ev' = [op |-> op, button |-> -1, point |-> None,
              rotating |-> tool.state.is_active]
    /\ out' = Outcome([W EXCEPT !.ret = ret])
    /\ UNCHANGED <<host, before_start>>

FmEnsureRotationFieldExists ==
    \E l \in {"A", "B"} :
        LET e == ensure_rotation_field_exists(World(tool, layers), l)
        IN  FieldManagerCall("ensure_rotation_field_exists", e.w, Some(e.ret))

FmFieldExists ==
    \E l \in {"A", "B"} :
        LET W == World(tool, layers)
        IN  \/ FieldManagerCall("get_field_index", W, Some(get_field_index(W, l)))
            \/ FieldManagerCall("field_exists", W, Some(field_exists(W, l)))

FmUpdateRotation ==
    \E l \in {"A"}, field_index \in {-1, 2} :
        FieldManagerCall("update_rotation",
                         update_rotation(World(tool, layers), l, 1, field_index,
                                         Deg(90)),
                         None)

MsgShowInfo ==
    ComponentCall("show_info", tool, layers, <<show_info("rotation saved")>>)

\* show_error(message, level) with any level, show_warning, show_critical
MsgShowError ==
    \/ \E level \in {"Info", "Warning", "Critical"} :
          ComponentCall("show_error", tool, layers, <<Msg(level, "failed")>>)
    \/ ComponentCall("show_warning", tool, layers, <<show_warning("failed")>>)
    \/ ComponentCall("show_critical", tool, layers, <<show_critical("failed")>>)

\* Each component is an object of its own: one specification per class.
NextVisualFeedback ==
    \/ VfmCreatePointRubberBand
    \/ VfmCreateGuideLine
    \/ VfmUpdateGuideLine
    \/ VfmRemoveAllRubberBands
    \/ VfmInitializeSnapIndicator
    \/ VfmUpdateSnapIndicator
    \/ VfmCreateSymbolPreview
    \/ VfmUpdateSymbolRotation
    \/ VfmRemoveSymbolPreview
    \/ VfmClear

SpecVisualFeedback == Init /\ [][NextVisualFeedback]_vars

NextRotationState ==
    \/ StateReset
    \/ StateStartRotation
    \/ StateSetAzimuth
    \/ StateFinishRotation

SpecRotationState == Init /\ [][NextRotationState]_vars

NextFieldManager ==
    \/ FmSetRotationProperty
    \/ FmEnsureRotationFieldExists
    \/ FmFieldExists
    \/ FmUpdateRotation

SpecFieldManager == Init /\ [][NextFieldManager]_vars

NextMessageHelper == MsgShowInfo \/ MsgShowError

SpecMessageHelper == Init /\ [][NextMessageHelper]_vars

-----------------------------------------------------------------------------
(* Properties *)

\* The update_rotation calls of a callback: its changeAttributeValue calls.
UpdateCalls(calls) == SelectSeq(calls, LAMBDA c : c.fn = "changeAttributeValue")

CountCalls(calls, fn, l) ==
    Len(SelectSeq(calls, LAMBDA c : c.fn = fn /\ c.layer = l))

VisualsCleared(t) ==
    /\ t.rubber_bands = <<>>
    /\ ~t.guide_rubber_band
    /\ IsNone(t.preview_item)

\* The azimuth normalized to 0..360, in float arithmetic.
Normalized(r) == IF FLt0(r) THEN FAdd360(r) ELSE r

LeftOrMiddleRelease == ev'.op = "release" /\ ev'.button \in {LEFT, MIDDLE}

RightRelease == ev'.op = "release" /\ ev'.button = RIGHT

\* C1: click-move-click persists the angle.  On a valid layer, a
\* left/middle release that starts a rotation records the feature, its id
\* and the rotation field index; every later move event sets the azimuth to
\* the normalized azimuth from the feature's point to that event's map
\* point; no other event changes what is recorded while the rotation goes
\* on; and the left/middle release that follows at least one move calls
\* update_rotation exactly once, with the recorded id and index and the
\* azimuth of the last move, and leaves the rotation state idle.
C1_ClickMoveClickPersists ==
    [][ /\ (LeftOrMiddleRelease /\ tool.is_valid /\ ~tool.state.is_active
               /\ tool'.state.is_active) =>
              /\ Val(tool'.state.feature) \in FeaturesOf(host.activeLayer)
              /\ tool'.state.feature_id = Some(Val(tool'.state.feature).id)
              /\ tool'.state.src_point = Some(Val(tool'.state.feature).point)
              /\ tool'.state.rotation_field_index =
                     fieldsIndexOf(layers'[tool.field_manager], tool.field_manager)
              /\ IsNone(tool'.state.azimuth)
        /\ (ev'.op = "move" /\ tool.is_valid /\ tool.state.is_active) =>
              /\ tool'.state.azimuth =
                     Some(Normalized(point_azimuth(Val(tool.state.feature).point,
                                                   Val(ev'.point))))
              /\ tool'.state = [tool.state EXCEPT !.azimuth = tool'.state.azimuth]
        /\ (ev'.op # "move" /\ tool.state.is_active /\ tool'.state.is_active) =>
              tool'.state = tool.state
        /\ (LeftOrMiddleRelease /\ tool.is_valid /\ tool.state.is_active
               /\ ~IsNone(tool.state.azimuth)) =>
              /\ UpdateCalls(out'.calls) =
                     << [fn |-> "changeAttributeValue",
                         layer |-> tool.field_manager,
                         args |-> <<Val(tool.state.feature).id,
                                    tool.state.rotation_field_index,
                                    Val(tool.state.azimuth)>>] >>
              /\ tool'.state = IdleState
      ]_vars

\* A left release has committed the azimuth 135 (from feature 1 of layer A
\* at (0,0) to the last move at (2,-2)) into field 2 of feature 1.
C1_Witness ==
    /\ ev.op = "release" /\ ev.button = LEFT /\ ev.rotating
    /\ UpdateCalls(out.calls) =
           << [fn |-> "changeAttributeValue", layer |-> "A",
               args |-> <<1, 2, Deg(135)>>] >>
    /\ tool.state = IdleState
    /\ layers["A"].attr[<<1, 2>>] = Some(Deg(135))

\* The commit of a rotation in progress: update_rotation is called, the
\* state is idle again and all visual feedback is cleared.
Committed ==
    /\ Len(UpdateCalls(out'.calls)) = 1
    /\ tool'.state = IdleState
    /\ VisualsCleared(tool')

\* C2 as claimed: whenever a rotation is in progress, the next left/middle
\* release commits it and ends the operation, with or without a mouse move
\* between the two clicks.
C2_EveryReleaseCommits ==
    [][ (LeftOrMiddleRelease /\ tool.state.drawing_guide) => Committed ]_vars

\* C2 amended: on a valid layer, the left/middle release commits the
\* rotation in progress and ends the operation once a mouse move has set
\* the azimuth; with no mouse move since the first click it changes
\* nothing and the rotation stays in progress.
C2_ReleaseCommitsAfterMove ==
    [][ /\ (LeftOrMiddleRelease /\ tool.is_valid /\ tool.state.drawing_guide
               /\ ~IsNone(tool.state.azimuth)) => Committed
        /\ (LeftOrMiddleRelease /\ tool.is_valid /\ tool.state.drawing_guide
               /\ IsNone(tool.state.azimuth)) =>
              /\ tool' = tool
              /\ layers' = layers
              /\ out'.calls = <<>>
      ]_vars

\* A middle release has committed a rotation and ended it.
C2_Witness ==
    /\ ev.op = "release" /\ ev.button = MIDDLE /\ ev.rotating
    /\ out.handlers = <<"commit">>
    /\ Len(UpdateCalls(out.calls)) = 1
    /\ tool.state = IdleState
    /\ VisualsCleared(tool)

\* C3: a right-button release met by an active rotation leaves the
\* rotation state idle and removes all rubber bands and the preview.
C3_RightReleaseDiscards ==
    [][ (RightRelease /\ tool.state.is_active) =>
            (tool'.state = IdleState /\ VisualsCleared(tool')) ]_vars

\* C4 as claimed: after the right-button release that cancels a rotation,
\* the layers are as they were before the rotation was started, and
\* update_rotation was not called.
C4_CancelRestoresLayer ==
    [][ (RightRelease /\ tool.is_valid /\ tool.state.is_active) =>
            (layers' = before_start /\ UpdateCalls(out'.calls) = <<>>) ]_vars

\* C4 amended: the cancel itself changes nothing in the layers and makes
\* no host call; since the rotation was started no attribute value and no
\* edit session has changed; what differs from before the start is at most
\* the rotation field added and the data-defined angle set by the start,
\* which remain.
C4_CancelSavesNoValue ==
    [][ (RightRelease /\ tool.is_valid /\ tool.state.is_active) =>
            /\ layers' = layers
            /\ out'.calls = <<>>
            /\ \A l \in LayerIds :
                  layers'[l] =
                     [before_start[l] EXCEPT !.hasField = layers'[l].hasField,
                                             !.pendingField = layers'[l].pendingField,
                                             !.ddAngle = layers'[l].ddAngle]
      ]_vars

\* A rotation on layer A was cancelled: no value was written, and the
\* rotation field and the data-defined angle the start added are there.
C4_Witness ==
    /\ ev.op = "release" /\ ev.button = RIGHT /\ ev.rotating
    /\ out.handlers = <<"cancel">>
    /\ ~before_start["A"].hasField /\ before_start["A"].ddAngle = {}
    /\ layers["A"].hasField /\ layers["A"].ddAngle = SymbolsOf("A")
    /\ layers["A"].attr = before_start["A"].attr

\* C5: on a valid layer a release with button LEFT or MIDDLE runs
\* _start_rotation when no guide is being drawn and _commit_rotation when
\* one is, a release with button RIGHT runs _cancel_rotation either way,
\* exactly one handler runs for these buttons, and any other button leaves
\* state, layers and visuals unchanged.
C5_ReleaseDispatch ==
    [][ (ev'.op = "release" /\ tool.is_valid) =>
            /\ (ev'.button \in {LEFT, MIDDLE} /\ ~tool.state.drawing_guide) =>
                   out'.handlers = <<"start">>
            /\ (ev'.button \in {LEFT, MIDDLE} /\ tool.state.drawing_guide) =>
                   out'.handlers = <<"commit">>
            /\ ev'.button = RIGHT => out'.handlers = <<"cancel">>
            /\ ev'.button \notin {LEFT, MIDDLE, RIGHT} =>
                   /\ out'.handlers = <<>>
                   /\ tool' = tool
                   /\ layers' = layers
                   /\ out'.calls = <<>>
      ]_vars

\* A right release with no rotation in progress has run _cancel_rotation.
C5_Witness ==
    /\ ev.op = "release" /\ ev.button = RIGHT /\ ~ev.rotating
    /\ tool.is_valid
    /\ out.handlers = <<"cancel">>

\* The raw azimuths QgsPointXY.azimuth() returns: -180 .. 180, and next
\* to 0 the values one delta below and above it.
RawAzimuths == {Deg(d) : d \in -180..180} \cup {<<0, -1>>, <<0, 1>>}

\* The angles a callback passed to update_rotation.
AnglesPassed == {out.calls[i].args[3] :
                    i \in {j \in DOMAIN out.calls :
                              out.calls[j].fn = "changeAttributeValue"}}

\* C6 as claimed: the value a that set_azimuth stores satisfies
\* 0 <= a < 360, so the azimuth of the rotation state and every angle
\* passed to update_rotation lie in [0, 360).
C6_AzimuthBelow360 ==
    /\ ~IsNone(tool.state.azimuth) =>
          (FGe0(Val(tool.state.azimuth)) /\ FLt360(Val(tool.state.azimuth)))
    /\ \A a \in AnglesPassed : FGe0(a) /\ FLt360(a)

\* C6 amended (the part on set_azimuth alone does not depend on the state
\* and is evaluated in the initial states): set_azimuth stores the float sum r + 360.0 when r < 0 and r
\* otherwise; the stored a lies in [0, 360], and is 360.0 exactly for the
\* negative r so close to 0 that the float sum rounds up to 360.0; the
\* azimuth of the rotation state and every angle passed to update_rotation
\* lie in [0, 360].
C6_AzimuthUpTo360 ==
    /\ ev.op = "init" => \A r \in RawAzimuths :
          LET a == Val(set_azimuth(IdleState, r).azimuth)
          IN  /\ FGe0(a) /\ FLe360(a)
              /\ FLt0(r) => a = FAdd360(r)
              /\ ~FLt0(r) => a = r
              /\ ~FLt360(a) <=> (r[1] = 0 /\ r[2] < 0)
    /\ ~IsNone(tool.state.azimuth) =>
          (FGe0(Val(tool.state.azimuth)) /\ FLe360(Val(tool.state.azimuth)))
    /\ \A a \in AnglesPassed : FGe0(a) /\ FLe360(a)

\* The raw azimuth -45 (from feature 2 of layer B at (2,0) to a move at
\* (0,2)) was stored as 315 and passed to update_rotation.
C6_Witness ==
    /\ ev.op = "release" /\ ev.rotating
    /\ AnglesPassed = {Deg(315)}

\* C7: validate(layer) is True exactly for a non-null vector layer of
\* wkbType Point whose renderer is single symbol, categorized, graduated or
\* rule-based, and it examines the renderer only for a non-null vector
\* layer of wkbType Point.
C7_ValidateIff ==
    ev.op = "validate" =>
        LET layer_ok == /\ ~IsNone(ev.layer)
                        /\ Val(ev.layer).cls = "QgsVectorLayer"
                        /\ Val(ev.layer).wkb = "Point"
        IN  /\ out.ret <=>
                  /\ layer_ok
                  /\ Val(ev.layer).renderer \in
                         {"QgsSingleSymbolRenderer", "QgsCategorizedSymbolRenderer",
                          "QgsGraduatedSymbolRenderer", "QgsRuleBasedRenderer"}
            /\ out.examined => layer_ok

\* validate returned True for a point layer with a graduated renderer.
C7_Witness ==
    /\ ev.op = "validate"
    /\ ev.layer = Some([cls |-> "QgsVectorLayer", wkb |-> "Point",
                        renderer |-> "QgsGraduatedSymbolRenderer"])
    /\ out.ret /\ out.examined

\* C8: a validate_layer or validate_renderer call that returns False
\* pushes exactly one message, a warning for a null layer and a critical
\* message for a wrong layer type or an incompatible renderer; one that
\* returns True pushes none; a validate call pushes at most one.
C8_OneMessagePerFailure ==
    /\ ev.op \in {"validate_layer", "validate_renderer"} =>
          IF out.ret
          THEN out.msgs = <<>>
          ELSE /\ Len(out.msgs) = 1
               /\ out.msgs[1].level =
                     IF ev.op = "validate_layer" /\ IsNone(ev.layer)
                     THEN "Warning" ELSE "Critical"
    /\ ev.op = "validate" => Len(out.msgs) <= 1

\* validate_renderer returned False for a heatmap renderer and pushed one
\* critical message.
C8_Witness ==
    /\ ev.op = "validate_renderer" /\ ev.renderer = "QgsHeatmapRenderer"
    /\ ~out.ret
    /\ Len(out.msgs) = 1 /\ out.msgs[1].level = "Critical"

\* C9: while is_valid is False, canvasPressEvent creates no field manager,
\* and canvasReleaseEvent and canvasMoveEvent change neither the tool
\* (rotation state, rubber bands, preview, snap indicator) nor the layers,
\* and make no host call.
C9_InvalidLayerGating ==
    [][ /\ (ev'.op = "press" /\ ~tool'.is_valid) =>
              /\ tool'.field_manager = tool.field_manager
              /\ layers' = layers
        /\ (ev'.op \in {"release", "move"} /\ ~tool.is_valid) =>
              /\ tool' = tool
              /\ layers' = layers
              /\ out'.calls = <<>>
      ]_vars

\* A move event arrived while a rotation was in progress and the layer was
\* not valid, and left the snap indicator and the azimuth untouched.
C9_Witness ==
    /\ ev.op = "move" /\ ev.rotating
    /\ ~tool.is_valid
    /\ tool.state.is_active
    /\ IsNone(tool.snap_match) /\ IsNone(tool.state.azimuth)

\* The layer a callback's LayerEditingContext was opened on, if any: the
\* layer it called addAttribute or changeAttributeValue on.
ContextUsedOn(calls, l) ==
    CountCalls(calls, "addAttribute", l)
        + CountCalls(calls, "changeAttributeValue", l) > 0

\* C10: a LayerEditingContext on a layer that is not in edit mode calls
\* startEditing once, before its body, and commitChanges once, after it,
\* and never rollBack on a normal exit; on a layer already in edit mode it
\* calls none of the three, the layer stays in edit mode and no committed
\* value changes.  No edit-session call is made outside a context.
C10_ContextEndsWhatItStarted ==
    [][ \A l \in LayerIds :
          LET calls == SelectSeq(out'.calls, LAMBDA c : c.layer = l)
              n(fn) == CountCalls(calls, fn, l)
          IN  IF ~ContextUsedOn(calls, l)
              THEN calls = <<>>
              ELSE /\ n("rollBack") = 0
                   /\ n("commitChanges") = n("startEditing")
                   /\ IF layers[l].editable
                      THEN /\ n("startEditing") = 0
                           /\ Len(calls) = 1
                           /\ layers'[l].editable
                           /\ layers'[l].attr = layers[l].attr
                           /\ layers'[l].hasField = layers[l].hasField
                      ELSE /\ n("startEditing") = 1
                           /\ Len(calls) = 3
                           /\ calls[1].fn = "startEditing"
                           /\ calls[3].fn = "commitChanges"
      ]_vars

\* update_rotation ran on layer A while it was in edit mode: no edit
\* session call was made and the angle is in the edit buffer, uncommitted.
C10_Witness ==
    /\ ev.op = "release" /\ ev.rotating
    /\ Len(out.calls) = 2
    /\ out.calls[1] = [fn |-> "changeAttributeValue", layer |-> "A",
                       args |-> <<1, 2, Deg(135)>>]
    /\ layers["A"].editable
    /\ layers["A"].pending[<<1, 2>>] = Some(Deg(135))
    /\ IsNone(layers["A"].attr[<<1, 2>>])

\* C11: when the body of a with-block raises and the context had started
\* the edit session, rollBack is called once, as the last call, and
\* commitChanges is not called: the layer is out of edit mode again with
\* its committed values and fields as before the block; when the layer was
\* in edit mode already neither is called.  __exit__ returns False, so the
\* exception leaves the with-block in every case, and no exception appears
\* when the body returned.
C11_RollbackOnError ==
    [][ ev'.op = "with" =>
          LET l == ev'.layer
              calls == out'.calls
              exc == ev'.outcome # "returns"
          IN  /\ ~LayerEditingContext_exit_returns(layers[l].editable, exc)
              /\ out'.raised <=> exc
              /\ (exc /\ ~layers[l].editable) =>
                    /\ CountCalls(calls, "rollBack", l) = 1
                    /\ calls[Len(calls)].fn = "rollBack"
                    /\ CountCalls(calls, "commitChanges", l) = 0
                    /\ CountCalls(calls, "startEditing", l) = 1
                    /\ ~layers'[l].editable
                    /\ layers'[l] = layers[l]
              /\ (exc /\ layers[l].editable) =>
                    /\ CountCalls(calls, "rollBack", l) = 0
                    /\ CountCalls(calls, "commitChanges", l) = 0
                    /\ layers'[l].editable
      ]_vars

\* The body of a with-block on layer A, not in edit mode, raised after its
\* changeAttributeValue call: the context rolled back and the exception
\* left the block.
C11_Witness ==
    /\ ev.op = "with" /\ ev.layer = "A" /\ ~ev.was_editing
    /\ ev.fn = "changeAttributeValue"
    /\ ev.outcome = "raises after the call"
    /\ Len(out.calls) = 3
    /\ out.calls[1].fn = "startEditing"
    /\ out.calls[2].fn = "changeAttributeValue"
    /\ out.calls[2].args[2] = 2
    /\ out.calls[3].fn = "rollBack"
    /\ out.raised
    /\ layers["A"].hasField
    /\ \A c \in Cells("A") : IsNone(layers["A"].pending[c])

\* C12: whenever a rotation is active, the layer of the field manager has
\* the '__rotation__' field and state.rotation_field_index, the value
\* ensure_rotation_field_exists returned, is its index, which is >= 0.
C12_FieldIndexWhileActive ==
    tool.state.is_active =>
        LET l == tool.field_manager
        IN  /\ layers[l].hasField \/ layers[l].pendingField
            /\ tool.state.rotation_field_index >= 0
            /\ tool.state.rotation_field_index = fieldsIndexOf(layers[l], l)

\* C13: after on_layer_changed(layer) returns, for another valid layer,
\* an invalid layer or None, the rotation state is idle and no rubber band
\* or symbol preview remains.
C13_LayerChangeCancels ==
    [][ (ev'.op = "layer_changed" /\ tool.connected) =>
            (tool'.state = IdleState /\ VisualsCleared(tool')) ]_vars

\* C14: after on_deactivate returns, the rotation state is idle, no
\* rubber band or symbol preview remains and on_layer_changed is not
\* connected to currentLayerChanged, so that later layer changes do not
\* reach the tool; nothing is raised, also when the signal was disconnected
\* already, and an on_deactivate on a tool that is already cleaned up and
\* disconnected leaves it as it is.  The layers are not touched.
C14_DeactivateCleansUp ==
    [][ /\ ev'.op = "deactivate" =>
              /\ tool'.state = IdleState
              /\ VisualsCleared(tool')
              /\ ~tool'.connected
              /\ ~out'.raised
              /\ layers' = layers /\ out'.calls = <<>>
              /\ (~tool.connected /\ tool.state = IdleState
                     /\ VisualsCleared(tool)) => tool' = tool
        /\ (ev'.op = "layer_changed" /\ ~tool.connected) => tool' = tool
      ]_vars

\* A second on_deactivate, whose disconnect raised TypeError, has ended a
\* rotation that was started after the tool was activated again.
C14_Witness ==
    /\ ev.op = "deactivate" /\ ev.rotating
    /\ out.swallowed = <<"TypeError">>
    /\ ~out.raised
    /\ tool.state = IdleState /\ VisualsCleared(tool) /\ ~tool.connected

\* A release starts a rotation.
StartsRotation ==
    ev'.op = "release" /\ ~tool.state.is_active /\ tool'.state.is_active

\* The release that starts a rotation leaves every symbol of the layer's
\* renderer (the single symbol, all category or range symbols, all rule
\* symbols) with its data-defined angle set to the '__rotation__'
\* expression.
SymbolsSetAtStart ==
    StartsRotation =>
        /\ tool.layer # NoLayer /\ tool.layer = tool.field_manager
        /\ SymbolsOf(tool.layer) # {}
        /\ SymbolsOf(tool.layer) \subseteq layers'[tool.layer].ddAngle

\* Every attribute value the tool has written, committed or in the edit
\* buffer, is in the '__rotation__' field of a layer all of whose symbols
\* read their angle from that field.
ValueIsRenderedAngle ==
    \A l \in LayerIds : \A c \in Cells(l) :
        (~IsNone(layers'[l].attr[c]) \/ ~IsNone(layers'[l].pending[c])) =>
            /\ c[2] = fieldsIndexOf(layers'[l], l)
            /\ SymbolsOf(l) \subseteq layers'[l].ddAngle

\* C15: the release that starts a rotation leaves every symbol of the
\* layer's renderer with its data-defined angle set to the '__rotation__'
\* expression, so that every attribute value the tool commits is the angle
\* the feature's symbol is rendered with.
C15_DataDefinedRotationAtStart ==
    [][SymbolsSetAtStart /\ ValueIsRenderedAngle]_vars

\* The first half of C15 alone, for the single-symbol, categorized,
\* graduated and rule-based layers.
C15_SymbolsSetAtStart == [][SymbolsSetAtStart]_vars

\* A rotation started on feature 1 of layer A (rotation field index 2) has
\* been committed through the field manager of layer R: 135 is stored in
\* field 2 of R's feature 1, which is not a rotation field, R's rule
\* symbols have no data-defined angle, and A's feature has no value.
C15_Witness ==
    /\ ev.op = "release" /\ ev.rotating /\ tool.state = IdleState
    /\ tool.field_manager = "R"
    /\ layers["R"].attr[<<1, 2>>] = Some(Deg(135))
    /\ ~layers["R"].hasField /\ layers["R"].ddAngle = {}
    /\ layers["A"].hasField /\ layers["A"].ddAngle = {"A.symbol"}
    /\ IsNone(layers["A"].attr[<<1, 2>>])

\* C16: after __del__ has run, no rubber band and no symbol preview of
\* the tool remains on the canvas, and no exception has left __del__.
C16_DestructorCleansUp ==
    [][ ev'.op = "del" => (VisualsCleared(tool') /\ ~out'.raised) ]_vars

\* C17: get_uuid() returns the preview-layer UUID string and raises
\* nothing, for every constructed tool.
C17_GetUuidReturnsUUID ==
    ev.op = "get_uuid" => (out.ret = Some(UUID) /\ ~out.raised)

====
